---- MODULE Spec2Model ----
(***************************************************************************)
(* A model of pyenv_parser.Env (src/pyenv_parser.py): the raw store        *)
(* env_values, the override registry custom_parsers, the loader            *)
(* _load_env_file, register_parser and the sixteen typed getters.          *)
(*                                                                         *)
(* A Python str is modelled as a sequence of one-character strings, so     *)
(* that strip, lower, split and the parsers work on characters.  A call's  *)
(* outcome is a record [kind, reason, val]: kind "ok" carries the returned *)
(* value in val, any other kind is the class of the exception that leaves  *)
(* the call.                                                               *)
(***************************************************************************)
EXTENDS Integers, Sequences, FiniteSets, TLC

VARIABLES
    fs,             \* the file system: path -> [exists, lines]
    phase,          \* "new" before Env(...), then "ready" or "failed"
    env_values,     \* Env.env_values: key -> raw string
    custom_parsers, \* Env.custom_parsers: key -> parser function
    last,           \* the most recent call: [op, key, arg, out, calls]
    written,        \* history: key -> the raw string most recently stored for it
    registered      \* history: key -> the callable most recently registered for it

vars == <<fs, phase, env_values, custom_parsers, last, written, registered>>

(***************************************************************************)
(* Bounds of the model.                                                    *)
(***************************************************************************)
MaxLines == 2       \* lines in the env file read by the loader

(***************************************************************************)
(* Outcomes.                                                               *)
(***************************************************************************)
Ok(v) == [kind |-> "ok", reason |-> "", val |-> v]
Raise(kind, reason) == [kind |-> kind, reason |-> reason, val |-> <<>>]
EnvParseError(reason) == Raise("EnvParseError", reason)

\* the result of a getter: its outcome and the strings the override was invoked on
Res(out, calls) == [out |-> out, calls |-> calls]

(***************************************************************************)
(* Python str operations, on sequences of characters.                      *)
(***************************************************************************)
Whitespace == {" ", "\t", "\n", "\r", "\f"}

RECURSIVE LStrip(_)
LStrip(s) == IF s # <<>> /\ Head(s) \in Whitespace THEN LStrip(Tail(s)) ELSE s

RECURSIVE RStrip(_)
RStrip(s) ==
    IF s # <<>> /\ s[Len(s)] \in Whitespace THEN RStrip(SubSeq(s, 1, Len(s) - 1)) ELSE s

Strip(s) == RStrip(LStrip(s))

StartsWith(s, p) == Len(s) >= Len(p) /\ SubSeq(s, 1, Len(p)) = p

\* the least index >= from at which sep occurs in s, or 0
Find(s, sep, from) ==
    LET hits == {i \in from..(Len(s) - Len(sep) + 1) : SubSeq(s, i, i + Len(sep) - 1) = sep}
    IN  IF hits = {} THEN 0 ELSE CHOOSE i \in hits : \A j \in hits : i <= j

\* s.split(sep, maxsplit) for a non-empty sep; maxsplit < 0 is "no limit"
RECURSIVE SplitMax(_, _, _)
SplitMax(s, sep, maxsplit) ==
    LET i == Find(s, sep, 1) IN
    IF maxsplit = 0 \/ i = 0 THEN <<s>>
    ELSE <<SubSeq(s, 1, i - 1)>>
         \o SplitMax(SubSeq(s, i + Len(sep), Len(s)), sep, maxsplit - 1)

UpperCase == <<"A","B","C","D","E","F","G","H","I","J","K","L","M",
               "N","O","P","Q","R","S","T","U","V","W","X","Y","Z">>
LowerCase == <<"a","b","c","d","e","f","g","h","i","j","k","l","m",
               "n","o","p","q","r","s","t","u","v","w","x","y","z">>

IndexIn(alphabet, c) ==
    LET hits == {i \in 1..Len(alphabet) : alphabet[i] = c}
    IN  IF hits = {} THEN 0 ELSE CHOOSE i \in hits : TRUE

LowerChar(c) == IF IndexIn(UpperCase, c) # 0 THEN LowerCase[IndexIn(UpperCase, c)] ELSE c
UpperChar(c) == IF IndexIn(LowerCase, c) # 0 THEN UpperCase[IndexIn(LowerCase, c)] ELSE c

Lower(s) == [i \in 1..Len(s) |-> LowerChar(s[i])]
Upper(s) == [i \in 1..Len(s) |-> UpperChar(s[i])]

(***************************************************************************)
(* Python dict operations.                                                 *)
(***************************************************************************)
EmptyDict == [k \in {} |-> <<>>]

Put(d, key, value) == [k \in DOMAIN d \cup {key} |-> IF k = key THEN value ELSE d[k]]

(***************************************************************************)
(* Python int: unbounded, kept as [neg, mag], mag the decimal (or, for     *)
(* UUID, hexadecimal) digits without leading zeros.                        *)
(***************************************************************************)
\* the value of the digit c, or -1
DigitVal(c) ==
    IndexIn(<<"0","1","2","3","4","5","6","7","8","9","a","b","c","d","e","f">>,
            LowerChar(c)) - 1

IsDigit(c, base) == DigitVal(c) \in 0..(base - 1)

\* digits with single underscores between them only
WellFormedDigits(s, base) ==
    /\ s # <<>>
    /\ IsDigit(s[1], base)
    /\ IsDigit(s[Len(s)], base)
    /\ \A i \in 1..Len(s) : IsDigit(s[i], base) \/ (s[i] = "_" /\ s[i - 1] # "_")

RECURSIVE DropLeadingZeros(_)
DropLeadingZeros(d) == IF d # <<>> /\ Head(d) = 0 THEN DropLeadingZeros(Tail(d)) ELSE d

DigitsOf(s) ==
    LET kept == SelectSeq(s, LAMBDA c : c # "_")
    IN  DropLeadingZeros([i \in 1..Len(kept) |-> DigitVal(kept[i])])

Big(neg, mag) == [neg |-> neg /\ mag # <<>>, mag |-> mag]

RECURSIVE NatDigits(_)
NatDigits(n) == IF n = 0 THEN <<>> ELSE Append(NatDigits(n \div 10), n % 10)

\* the int n, for 0 <= n
ToBig(n) == Big(FALSE, NatDigits(n))

\* -1, 0, 1 as the magnitude a is below, equal to, above the magnitude b
CmpMag(a, b) ==
    IF Len(a) # Len(b) THEN (IF Len(a) < Len(b) THEN -1 ELSE 1)
    ELSE LET diff == {i \in 1..Len(a) : a[i] # b[i]} IN
         IF diff = {} THEN 0
         ELSE LET i == CHOOSE j \in diff : \A k \in diff : j <= k
              IN  IF a[i] < b[i] THEN -1 ELSE 1

\* x <= y
BigLeq(x, y) ==
    CASE x.neg /\ ~y.neg -> TRUE
      [] ~x.neg /\ y.neg -> FALSE
      [] x.neg /\ y.neg -> CmpMag(x.mag, y.mag) >= 0
      [] OTHER -> CmpMag(x.mag, y.mag) <= 0

\* long division of a decimal magnitude by 0 < d: [q, r]
RECURSIVE DivMag(_, _, _, _)
DivMag(mag, d, q, r) ==
    IF mag = <<>> THEN [q |-> DropLeadingZeros(q), r |-> r]
    ELSE LET cur == r * 10 + Head(mag)
         IN  DivMag(Tail(mag), d, Append(q, cur \div d), cur % d)

Negative(t) == t # <<>> /\ t[1] = "-"

Unsigned(t) == IF t # <<>> /\ t[1] \in {"+", "-"} THEN Tail(t) ELSE t

\* u without a base prefix 0x and the one underscore that may follow it
Unprefixed(u, base) ==
    IF base = 16 /\ Len(u) >= 2 /\ u[1] = "0" /\ u[2] \in {"x", "X"}
    THEN SubSeq(u, IF Len(u) >= 3 /\ u[3] = "_" THEN 4 ELSE 3, Len(u))
    ELSE u

IntOfDigits(neg, v, base) ==
    IF WellFormedDigits(v, base)
    THEN Ok(Big(neg, DigitsOf(v)))
    ELSE Raise("ValueError", "invalid literal for int()")

\* int(s, base), base 10 or 16: Ok([neg, mag]) or ValueError
PyInt(s, base) ==
    IntOfDigits(Negative(Strip(s)), Unprefixed(Unsigned(Strip(s)), base), base)

\* s before the index i, all of s for i = 0
Before(s, i) == IF i = 0 THEN s ELSE SubSeq(s, 1, i - 1)

\* s after the index i, none for i = 0
After(s, i, none) == IF i = 0 THEN none ELSE SubSeq(s, i + 1, Len(s))

\* float('nan'), float('inf'), float('infinity') and their negatives
FloatSpecial(neg, l) ==
    Ok([t |-> "float", special |-> l, neg |-> neg,
        digits |-> <<>>, scale |-> 0, exp |-> ToBig(0)])

\* ip, fp: the digits before and after the point; x, xp: the exponent and its int
FloatOfParts(neg, dotted, ip, fp, x, xp) ==
    IF /\ IF ~dotted THEN WellFormedDigits(ip, 10)
          ELSE /\ ip = <<>> \/ WellFormedDigits(ip, 10)
               /\ fp = <<>> \/ WellFormedDigits(fp, 10)
               /\ ip # <<>> \/ fp # <<>>
       /\ x # <<>> /\ x[1] \notin Whitespace /\ x[Len(x)] \notin Whitespace
       /\ xp.kind = "ok"
    THEN Ok([t |-> "float", special |-> <<>>, neg |-> neg,
             digits |-> DigitsOf(ip \o fp),
             scale |-> Len(SelectSeq(fp, LAMBDA c : c # "_")), exp |-> xp.val])
    ELSE Raise("ValueError", "could not convert string to float")

\* m: the mantissa, x: the exponent
FloatOfMantissa(neg, m, x) ==
    FloatOfParts(neg, Find(m, <<".">>, 1) # 0,
                 Before(m, Find(m, <<".">>, 1)), After(m, Find(m, <<".">>, 1), <<>>),
                 x, PyInt(x, 10))

\* u: the text without its sign, l: u in lower case
FloatOfLower(neg, u, l) ==
    IF l \in {<<"i","n","f">>, <<"i","n","f","i","n","i","t","y">>, <<"n","a","n">>}
    THEN FloatSpecial(neg, l)
    ELSE FloatOfMantissa(neg, Before(u, Find(l, <<"e">>, 1)),
                         After(u, Find(l, <<"e">>, 1), <<"0">>))

\* float(s): Ok([t, special, neg, digits, scale, exp]) or ValueError; the value
\* is digits * 10^(exp - scale), kept unevaluated
PyFloat(s) ==
    FloatOfLower(Negative(Strip(s)), Unsigned(Strip(s)), Lower(Unsigned(Strip(s))))

(***************************************************************************)
(* datetime.strptime(value, format).date(), for the directives %d, %m, %Y  *)
(* and %%.  The format becomes a pattern matched from the left with the    *)
(* alternatives of each directive tried in the order of the library's      *)
(* regular expression; the match need not reach the end of the data, and   *)
(* data left over is an error.                                             *)
(***************************************************************************)
RECURSIVE FormatTokens(_)
FormatTokens(f) ==
    IF f = <<>> THEN [kind |-> "ok", toks |-> <<>>]
    ELSE IF Head(f) = "%"
    THEN IF Len(f) = 1 THEN [kind |-> "ValueError", toks |-> <<>>]        \* stray %
         ELSE IF f[2] \notin {"d", "m", "Y", "%"}
         THEN [kind |-> "ValueError", toks |-> <<>>]                      \* bad directive
         ELSE LET rest == FormatTokens(SubSeq(f, 3, Len(f)))
                  tok == IF f[2] = "%" THEN [k |-> "lit", c |-> "%"]
                         ELSE [k |-> "dir", c |-> f[2]]
              IN  IF rest.kind # "ok" THEN rest
                  ELSE [kind |-> "ok", toks |-> <<tok>> \o rest.toks]
    ELSE IF Head(f) \in Whitespace
    THEN LET rest == FormatTokens(LStrip(f))
         IN  IF rest.kind # "ok" THEN rest
             ELSE [kind |-> "ok", toks |-> <<[k |-> "ws", c |-> " "]>> \o rest.toks]
    ELSE LET rest == FormatTokens(Tail(f))
         IN  IF rest.kind # "ok" THEN rest
             ELSE [kind |-> "ok", toks |-> <<[k |-> "lit", c |-> Head(f)]>> \o rest.toks]

IsDec(s, i) == i <= Len(s) /\ IsDigit(s[i], 10)
DecAt(s, i) == DigitVal(s[i])
InRange(s, i, lo, hi) == IsDec(s, i) /\ DecAt(s, i) >= lo /\ DecAt(s, i) <= hi

\* the ways directive c can match at the head of s, best first: <<[len, val], ...>>
Alternatives(c, s) ==
    CASE c = "d" ->
           (IF s # <<>> /\ s[1] = "3" /\ InRange(s, 2, 0, 1)
            THEN <<[len |-> 2, val |-> 30 + DecAt(s, 2)]>> ELSE <<>>)
        \o (IF InRange(s, 1, 1, 2) /\ IsDec(s, 2)
            THEN <<[len |-> 2, val |-> 10 * DecAt(s, 1) + DecAt(s, 2)]>> ELSE <<>>)
        \o (IF s # <<>> /\ s[1] = "0" /\ InRange(s, 2, 1, 9)
            THEN <<[len |-> 2, val |-> DecAt(s, 2)]>> ELSE <<>>)
        \o (IF InRange(s, 1, 1, 9) THEN <<[len |-> 1, val |-> DecAt(s, 1)]>> ELSE <<>>)
        \o (IF s # <<>> /\ s[1] = " " /\ InRange(s, 2, 1, 9)
            THEN <<[len |-> 2, val |-> DecAt(s, 2)]>> ELSE <<>>)
      [] c = "m" ->
           (IF s # <<>> /\ s[1] = "1" /\ InRange(s, 2, 0, 2)
            THEN <<[len |-> 2, val |-> 10 + DecAt(s, 2)]>> ELSE <<>>)
        \o (IF s # <<>> /\ s[1] = "0" /\ InRange(s, 2, 1, 9)
            THEN <<[len |-> 2, val |-> DecAt(s, 2)]>> ELSE <<>>)
        \o (IF InRange(s, 1, 1, 9) THEN <<[len |-> 1, val |-> DecAt(s, 1)]>> ELSE <<>>)
      [] OTHER ->
           IF \A i \in 1..4 : IsDec(s, i)
           THEN <<[len |-> 4, val |-> 1000 * DecAt(s, 1) + 100 * DecAt(s, 2)
                                      + 10 * DecAt(s, 3) + DecAt(s, 4)]>>
           ELSE <<>>

RECURSIVE LeadingWhitespace(_)
LeadingWhitespace(s) ==
    IF s # <<>> /\ Head(s) \in Whitespace THEN 1 + LeadingWhitespace(Tail(s)) ELSE 0

NoMatch == [ok |-> FALSE, rest |-> <<>>, got |-> <<>>]

RECURSIVE Match(_, _, _)
RECURSIVE TryAlternatives(_, _, _, _, _)
RECURSIVE TryWhitespace(_, _, _, _)

\* got: the [c, val] pairs matched so far
Match(s, toks, got) ==
    IF toks = <<>> THEN [ok |-> TRUE, rest |-> s, got |-> got]
    ELSE LET tok == Head(toks) IN
         CASE tok.k = "lit" ->
                IF s # <<>> /\ LowerChar(s[1]) = LowerChar(tok.c)
                THEN Match(Tail(s), Tail(toks), got) ELSE NoMatch
           [] tok.k = "ws" -> TryWhitespace(LeadingWhitespace(s), s, Tail(toks), got)
           [] OTHER -> TryAlternatives(Alternatives(tok.c, s), tok.c, s, Tail(toks), got)

TryAlternatives(alts, c, s, toks, got) ==
    IF alts = <<>> THEN NoMatch
    ELSE LET a == Head(alts)
             r == Match(SubSeq(s, a.len + 1, Len(s)), toks,
                        Append(got, [c |-> c, val |-> a.val]))
         IN  IF r.ok THEN r ELSE TryAlternatives(Tail(alts), c, s, toks, got)

TryWhitespace(n, s, toks, got) ==
    IF n = 0 THEN NoMatch
    ELSE LET r == Match(SubSeq(s, n + 1, Len(s)), toks, got)
         IN  IF r.ok THEN r ELSE TryWhitespace(n - 1, s, toks, got)

DefaultYear == 1900

DaysInMonth(y, m) ==
    IF m = 2 THEN (IF y % 4 = 0 /\ (y % 100 # 0 \/ y % 400 = 0) THEN 29 ELSE 28)
    ELSE IF m \in {4, 6, 9, 11} THEN 30 ELSE 31

MatchedField(got, c, default) ==
    LET hits == {i \in 1..Len(got) : got[i].c = c}
    IN  IF hits = {} THEN default ELSE got[CHOOSE i \in hits : TRUE].val

\* datetime(y, m, d).date()
DateOf(y, m, d) ==
    IF y < 1 THEN Raise("ValueError", "year is out of range")
    ELSE IF d > DaysInMonth(y, m) THEN Raise("ValueError", "day is out of range for month")
    ELSE Ok([t |-> "date", year |-> y, month |-> m, day |-> d])

DateOfMatch(r) ==
    IF ~r.ok THEN Raise("ValueError", "does not match format")
    ELSE IF r.rest # <<>> THEN Raise("ValueError", "unconverted data remains")
    ELSE DateOf(MatchedField(r.got, "Y", DefaultYear),
                MatchedField(r.got, "m", 1), MatchedField(r.got, "d", 1))

StrptimeTokens(value, f) ==
    IF f.kind # "ok" THEN Raise("ValueError", "bad format")
    ELSE IF \E i, j \in 1..Len(f.toks) :
                i # j /\ f.toks[i].k = "dir" /\ f.toks[i] = f.toks[j]
    THEN Raise("re.error", "redefinition of group name")    \* one directive twice
    ELSE DateOfMatch(Match(value, f.toks, <<>>))

Strptime(value, format) == StrptimeTokens(value, FormatTokens(format))

(***************************************************************************)
(* uuid.UUID(hex).                                                         *)
(***************************************************************************)
\* s.replace(sub, '')
RECURSIVE RemoveAll(_, _)
RemoveAll(s, sub) ==
    LET i == Find(s, sub, 1) IN
    IF i = 0 THEN s
    ELSE SubSeq(s, 1, i - 1) \o RemoveAll(SubSeq(s, i + Len(sub), Len(s)), sub)

\* s.strip(chars)
RECURSIVE StripChars(_, _)
StripChars(s, chars) ==
    IF s # <<>> /\ Head(s) \in chars THEN StripChars(Tail(s), chars)
    ELSE IF s # <<>> /\ s[Len(s)] \in chars THEN StripChars(SubSeq(s, 1, Len(s) - 1), chars)
    ELSE s

UuidHexLen == 32

UuidOfInt(n) ==
    IF n.kind # "ok" THEN n
    ELSE Ok([t |-> "uuid",
             hex |-> [i \in 1..(UuidHexLen - Len(n.val.mag)) |-> 0] \o n.val.mag])

UuidOfHex(hex) ==
    IF Len(hex) # UuidHexLen THEN Raise("ValueError", "badly formed hexadecimal UUID string")
    ELSE UuidOfInt(PyInt(hex, 16))

\* hex: value without urn:, uuid:, braces and hyphens
PyUUID(value) ==
    UuidOfHex(RemoveAll(StripChars(RemoveAll(RemoveAll(value, <<"u","r","n",":">>),
                                             <<"u","u","i","d",":">>),
                                   {"{", "}"}),
                        <<"-">>))

(***************************************************************************)
(* pathlib.Path(value) on a POSIX system: the root and the parts.          *)
(***************************************************************************)
PyPath(value) ==
    LET slashes == IF value # <<>> /\ value[1] = "/"
                   THEN (IF Len(value) >= 2 /\ value[2] = "/"
                            /\ ~(Len(value) >= 3 /\ value[3] = "/")
                         THEN 2 ELSE 1)
                   ELSE 0
        root == [i \in 1..slashes |-> "/"]
        parts == SelectSeq(SplitMax(value, <<"/">>, -1), LAMBDA x : x # <<>> /\ x # <<".">>)
    IN  Ok([t |-> "path", root |-> root, parts |-> parts])

(***************************************************************************)
(* urllib.parse.urlparse(value): scheme, netloc and the rest.  The params  *)
(* of the last path segment are left in the path.                          *)
(***************************************************************************)
Letters == {UpperCase[i] : i \in 1..Len(UpperCase)} \cup {LowerCase[i] : i \in 1..Len(LowerCase)}
HexDigitChars == {"0", "1", "2", "3", "4", "5", "6", "7", "8", "9",
                  "a", "b", "c", "d", "e", "f", "A", "B", "C", "D", "E", "F"}

Contains(s, c) == \E i \in 1..Len(s) : s[i] = c

HasScheme(url0, colon) ==
    /\ colon > 1
    /\ url0[1] \in Letters
    /\ \A i \in 1..(colon - 1) :
         url0[i] \in Letters \cup {"0", "1", "2", "3", "4", "5", "6", "7", "8", "9", "+", "-", "."}

\* the end of the netloc of url1, which starts with //
NetlocEnd(url1) ==
    LET delims == {i \in 3..Len(url1) : url1[i] \in {"/", "?", "#"}}
    IN  IF delims = {} THEN Len(url1) + 1 ELSE CHOOSE i \in delims : \A j \in delims : i <= j

\* _check_bracketed_host(netloc.partition('[')[2].partition(']')[0]): of the
\* hosts the model writes in brackets, ::1 is an IP literal
BracketedHostOk(netloc) ==
    Before(After(netloc, Find(netloc, <<"[">>, 1), <<>>),
           Find(After(netloc, Find(netloc, <<"[">>, 1), <<>>), <<"]">>, 1))
      = <<":", ":", "1">>

UrlOf(scheme, netloc, rest) ==
    IF Contains(netloc, "[") # Contains(netloc, "]")
    THEN Raise("ValueError", "Invalid IPv6 URL")
    ELSE IF Contains(netloc, "[") /\ ~BracketedHostOk(netloc)
    THEN Raise("ValueError", "not an IPv6 address")
    ELSE Ok([t |-> "url", scheme |-> scheme, netloc |-> netloc, rest |-> rest])

\* url1: the text after the scheme
AfterScheme(scheme, url1) ==
    IF StartsWith(url1, <<"/", "/">>)
    THEN UrlOf(scheme, SubSeq(url1, 3, NetlocEnd(url1) - 1),
               SubSeq(url1, NetlocEnd(url1), Len(url1)))
    ELSE UrlOf(scheme, <<>>, url1)

\* url0: the text without leading white space, tabs and line ends
SplitScheme(url0, colon) ==
    IF HasScheme(url0, colon)
    THEN AfterScheme(Lower(SubSeq(url0, 1, colon - 1)), SubSeq(url0, colon + 1, Len(url0)))
    ELSE AfterScheme(<<>>, url0)

UrlOfChars(url0) == SplitScheme(url0, Find(url0, <<":">>, 1))

PyUrlparse(value) ==
    UrlOfChars(SelectSeq(LStrip(value), LAMBDA c : c \notin {"\t", "\r", "\n"}))

(***************************************************************************)
(* base64.b64decode(value): binascii.a2b_base64 without strict mode.       *)
(***************************************************************************)
Base64Alphabet ==
    UpperCase \o LowerCase \o <<"0","1","2","3","4","5","6","7","8","9","+","/">>

\* st = [quad, left, pads, out, done]
RECURSIVE A2bBase64(_, _)
A2bBase64(s, st) ==
    IF s = <<>> \/ st.done THEN st
    ELSE LET c == Head(s)
             v == IndexIn(Base64Alphabet, c) - 1
         IN  IF c = "="
             THEN IF st.quad >= 2 /\ st.quad + st.pads + 1 >= 4
                  THEN [st EXCEPT !.done = TRUE]
                  ELSE A2bBase64(Tail(s),
                                 IF st.quad >= 2 THEN [st EXCEPT !.pads = st.pads + 1] ELSE st)
             ELSE IF v < 0 THEN A2bBase64(Tail(s), st)
             ELSE A2bBase64(Tail(s),
                    CASE st.quad = 0 -> [st EXCEPT !.quad = 1, !.left = v, !.pads = 0]
                      [] st.quad = 1 ->
                           [st EXCEPT !.quad = 2, !.left = v % 16, !.pads = 0,
                                      !.out = Append(st.out, st.left * 4 + v \div 16)]
                      [] st.quad = 2 ->
                           [st EXCEPT !.quad = 3, !.left = v % 4, !.pads = 0,
                                      !.out = Append(st.out, st.left * 16 + v \div 4)]
                      [] OTHER ->
                           [st EXCEPT !.quad = 0, !.left = 0, !.pads = 0,
                                      !.out = Append(st.out, st.left * 64 + v)])

PyB64decode(value) ==
    IF \E i \in 1..Len(value) : value[i] \in {"é"}      \* not ASCII
    THEN Raise("ValueError", "string argument should contain only ASCII characters")
    ELSE LET st == A2bBase64(value, [quad |-> 0, left |-> 0, pads |-> 0,
                                      out |-> <<>>, done |-> FALSE])
         IN  IF ~st.done /\ st.quad # 0
             THEN Raise("ValueError", "Incorrect padding")     \* binascii.Error
             ELSE Ok([t |-> "bytes", v |-> st.out])

(***************************************************************************)
(* PIL.Image.open(BytesIO(data)).  Of the byte strings the model decodes,  *)
(* one is an image: the 1x1 GIF below.                                      *)
(***************************************************************************)
TinyGif == <<71, 73, 70, 56, 57, 97, 1, 0, 1, 0, 128, 0, 0, 0, 0, 0, 255, 255, 255,
             33, 249, 4, 1, 0, 0, 0, 0, 44, 0, 0, 0, 0, 1, 0, 1, 0, 0, 2, 1, 68, 0, 59>>

ImageOpen(data) ==
    IF data = TinyGif THEN Ok([t |-> "image", format |-> "GIF", data |-> data])
    ELSE Raise("UnidentifiedImageError", "cannot identify image file")

(***************************************************************************)
(* json.loads(value).  A value is [j, v]: j names the JSON type.  A number *)
(* becomes a Python int or float; a \uXXXX escape is kept as the marker    *)
(* "\\u" and its four digits.                                              *)
(***************************************************************************)
RECURSIVE SkipWs(_, _)
SkipWs(s, i) == IF i <= Len(s) /\ s[i] \in {" ", "\t", "\n", "\r"} THEN SkipWs(s, i + 1) ELSE i

JFail == [ok |-> FALSE, val |-> <<>>, pos |-> 0]
JOk(val, pos) == [ok |-> TRUE, val |-> val, pos |-> pos]

At(s, i, word) == i + Len(word) - 1 <= Len(s) /\ SubSeq(s, i, i + Len(word) - 1) = word

RECURSIVE DigitRun(_, _)
DigitRun(s, i) == IF IsDec(s, i) THEN DigitRun(s, i + 1) ELSE i

AfterSign(s, i) == IF i <= Len(s) /\ s[i] = "-" THEN i + 1 ELSE i

AfterInt(s, a) ==
    IF ~IsDec(s, a) THEN 0
    ELSE IF s[a] = "0" THEN a + 1 ELSE DigitRun(s, a)

AfterFrac(s, b) ==
    IF b # 0 /\ b <= Len(s) /\ s[b] = "." /\ IsDec(s, b + 1) THEN DigitRun(s, b + 1) ELSE b

\* the position of the digits of an exponent that starts at c, or 0
ExpDigits(s, c) ==
    IF c # 0 /\ c <= Len(s) /\ s[c] \in {"e", "E"}
    THEN (IF c + 1 <= Len(s) /\ s[c + 1] \in {"+", "-"} THEN c + 2 ELSE c + 1)
    ELSE 0

AfterExp(s, c, e) == IF e # 0 /\ IsDec(s, e) THEN DigitRun(s, e) ELSE c

\* (-?(?:0|[1-9]\d*))(\.\d+)?([eE][-+]?\d+)? at i: the position after the match, or 0
NumberEnd(s, i) ==
    AfterExp(s, AfterFrac(s, AfterInt(s, AfterSign(s, i))),
             ExpDigits(s, AfterFrac(s, AfterInt(s, AfterSign(s, i)))))

JNumber(s, i, end) ==
    LET lit == SubSeq(s, i, end - 1) IN
    IF Contains(lit, ".") \/ Contains(lit, "e") \/ Contains(lit, "E")
    THEN [j |-> "float", v |-> PyFloat(lit).val]
    ELSE [j |-> "int", v |-> PyInt(lit, 10).val]

JsonEscapes == [c \in {"\"", "\\", "/", "b", "f", "n", "r", "t"} |->
                  CASE c = "b" -> "\\b" [] c = "f" -> "\f" [] c = "n" -> "\n"
                    [] c = "r" -> "\r" [] c = "t" -> "\t" [] OTHER -> c]

\* the string whose opening quote is before i; acc its characters so far
RECURSIVE JString(_, _, _)
JString(s, i, acc) ==
    IF i > Len(s) THEN JFail
    ELSE IF s[i] = "\"" THEN JOk(acc, i + 1)
    ELSE IF s[i] \in {"\t", "\n", "\r", "\f"} THEN JFail          \* control character
    ELSE IF s[i] # "\\" THEN JString(s, i + 1, Append(acc, s[i]))
    ELSE IF i + 1 > Len(s) THEN JFail
    ELSE IF s[i + 1] \in DOMAIN JsonEscapes
    THEN JString(s, i + 2, Append(acc, JsonEscapes[s[i + 1]]))
    ELSE IF s[i + 1] = "u" /\ i + 5 <= Len(s)
            /\ \A k \in (i + 2)..(i + 5) : s[k] \in HexDigitChars
    THEN JString(s, i + 6, acc \o <<"\\u">> \o Lower(SubSeq(s, i + 2, i + 5)))
    ELSE JFail

\* NaN, Infinity and -Infinity
JConstant(s, i) ==
    CASE At(s, i, <<"N","a","N">>) ->
           JOk([j |-> "float", v |-> FloatSpecial(FALSE, <<"n","a","n">>).val], i + 3)
      [] At(s, i, <<"I","n","f","i","n","i","t","y">>) ->
           JOk([j |-> "float", v |-> FloatSpecial(FALSE, <<"i","n","f">>).val], i + 8)
      [] At(s, i, <<"-","I","n","f","i","n","i","t","y">>) ->
           JOk([j |-> "float", v |-> FloatSpecial(TRUE, <<"i","n","f">>).val], i + 9)
      [] OTHER -> JFail

JNumberAt(s, i, end) == IF end # 0 THEN JOk(JNumber(s, i, end), end) ELSE JConstant(s, i)

RECURSIVE JValue(_, _)
RECURSIVE JArray(_, _, _)
RECURSIVE JObject(_, _, _)

\* scan_once(s, i)
JValue(s, i) ==
    IF i > Len(s) THEN JFail
    ELSE CASE s[i] = "\"" ->
                LET r == JString(s, i + 1, <<>>)
                IN  IF r.ok THEN JOk([j |-> "str", v |-> r.val], r.pos) ELSE JFail
           [] s[i] = "{" ->
                LET k == SkipWs(s, i + 1)
                IN  IF k <= Len(s) /\ s[k] = "}" THEN JOk([j |-> "object", v |-> EmptyDict], k + 1)
                    ELSE JObject(s, k, EmptyDict)
           [] s[i] = "[" ->
                LET k == SkipWs(s, i + 1)
                IN  IF k <= Len(s) /\ s[k] = "]" THEN JOk([j |-> "array", v |-> <<>>], k + 1)
                    ELSE JArray(s, k, <<>>)
           [] At(s, i, <<"n","u","l","l">>) -> JOk([j |-> "null", v |-> <<>>], i + 4)
           [] At(s, i, <<"t","r","u","e">>) -> JOk([j |-> "bool", v |-> TRUE], i + 4)
           [] At(s, i, <<"f","a","l","s","e">>) -> JOk([j |-> "bool", v |-> FALSE], i + 5)
           [] OTHER -> JNumberAt(s, i, NumberEnd(s, i))

\* the items of an array from i on, i at the first character of an item
JArray(s, i, acc) ==
    LET r == JValue(s, i) IN
    IF ~r.ok THEN JFail
    ELSE LET k == SkipWs(s, r.pos)
             items == Append(acc, r.val)
         IN  IF k > Len(s) THEN JFail
             ELSE IF s[k] = "]" THEN JOk([j |-> "array", v |-> items], k + 1)
             ELSE IF s[k] = "," THEN JArray(s, SkipWs(s, k + 1), items)
             ELSE JFail

\* the pairs of an object from i on, i at the opening quote of a key
JObject(s, i, acc) ==
    IF ~(i <= Len(s) /\ s[i] = "\"") THEN JFail
    ELSE LET key == JString(s, i + 1, <<>>) IN
         IF ~key.ok THEN JFail
         ELSE LET c == SkipWs(s, key.pos) IN
              IF ~(c <= Len(s) /\ s[c] = ":") THEN JFail
              ELSE LET r == JValue(s, SkipWs(s, c + 1)) IN
                   IF ~r.ok THEN JFail
                   ELSE LET k == SkipWs(s, r.pos)
                            pairs == Put(acc, key.val, r.val)
                        IN  IF k > Len(s) THEN JFail
                            ELSE IF s[k] = "}" THEN JOk([j |-> "object", v |-> pairs], k + 1)
                            ELSE IF s[k] = "," THEN JObject(s, SkipWs(s, k + 1), pairs)
                            ELSE JFail

JsonOf(value, r) ==
    IF ~r.ok THEN Raise("JSONDecodeError", "Expecting value")
    ELSE IF SkipWs(value, r.pos) # Len(value) + 1 THEN Raise("JSONDecodeError", "Extra data")
    ELSE Ok([t |-> "json", j |-> r.val.j, v |-> r.val.v])

PyJsonLoads(value) == JsonOf(value, JValue(value, SkipWs(value, 1)))

(***************************************************************************)
(* Env._load_env_file: the validator of env_values.                        *)
(***************************************************************************)
NoFile == [exists |-> FALSE, lines |-> <<>>]
File(lines) == [exists |-> TRUE, lines |-> lines]

DefaultPath == ".env"

\* the loop below with line.rstrip() in place of line.strip()
RECURSIVE LoadLinesRStrip(_, _)
LoadLinesRStrip(lines, env_dict) ==
    IF lines = <<>> THEN Ok(env_dict)
    ELSE LET line == Head(lines) IN
         IF Strip(line) # <<>> /\ ~StartsWith(line, <<"#">>)
         THEN LET parts == SplitMax(RStrip(line), <<"=">>, 1) IN
              IF Len(parts) # 2
              THEN Raise("ValueError", "unpack")
              ELSE LoadLinesRStrip(Tail(lines), Put(env_dict, parts[1], parts[2]))
         ELSE LoadLinesRStrip(Tail(lines), env_dict)

\* for line in f: ... env_dict[key] = value
RECURSIVE LoadLines(_, _)
LoadLines(lines, env_dict) ==
    IF lines = <<>> THEN Ok(env_dict)
    ELSE LET line == Head(lines) IN
         IF Strip(line) # <<>> /\ ~StartsWith(line, <<"#">>)
         THEN LET parts == SplitMax(Strip(line), <<"=">>, 1) IN
              IF Len(parts) # 2
              THEN Raise("ValueError", "unpack")   \* key, value = [one item]
              ELSE LoadLines(Tail(lines), Put(env_dict, parts[1], parts[2]))
         ELSE LoadLines(Tail(lines), env_dict)

\* `values` holds the fields validated before env_values.  env_values is the
\* first field of Env and env_file is no field at all, so the validator is
\* handed an empty mapping whatever keyword arguments Env(...) was given.
ValidatorValues(kwargs) == [f \in {} |-> ""]

_load_env_file(files, values) ==
    LET env_file == IF "env_file" \in DOMAIN values THEN values["env_file"] ELSE DefaultPath
    IN  IF ~files[env_file].exists
        THEN EnvParseError("SourceNotFound")   \* except FileNotFoundError
        ELSE LoadLines(files[env_file].lines, EmptyDict)

(***************************************************************************)
(* Env._get, Env._apply_custom_parser, the parser functions callers pass.  *)
(***************************************************************************)
\* _get as self.env_values.get(key, ''): a default in place of the error
GetOrDefault(ev, key) ==
    IF key \notin DOMAIN ev THEN Ok(<<>>) ELSE Ok(ev[key])

_get(ev, key) ==
    IF key \notin DOMAIN ev THEN EnvParseError("MissingKey") ELSE Ok(ev[key])

\* a parser function is [kind |-> "const", out |-> s] (lambda x: s),
\* [kind |-> "upper", ...] (str.upper) or [kind |-> "identity", ...];
\* [kind |-> "notcallable", ...] is a value that is not callable
Callable(fn) == fn.kind # "notcallable"

CallParser(fn, value) ==
    CASE fn.kind = "const" -> fn.out
      [] fn.kind = "upper" -> Upper(value)
      [] OTHER -> value

_apply_custom_parser(cp, key, value) ==
    IF key \in DOMAIN cp
    THEN [val |-> CallParser(cp[key], value), calls |-> <<value>>]
    ELSE [val |-> value, calls |-> <<>>]

\* register_parser without the callable() test
RegisterUnchecked(cp, key, parser_func) ==
    [out |-> Ok(<<>>), cp |-> Put(cp, key, parser_func)]

\* register_parser as self.custom_parsers.setdefault(key, parser_func)
RegisterFirst(cp, key, parser_func) ==
    IF ~Callable(parser_func)
    THEN [out |-> EnvParseError("InvalidOverride"), cp |-> cp]
    ELSE [out |-> Ok(<<>>),
          cp |-> IF key \in DOMAIN cp THEN cp ELSE Put(cp, key, parser_func)]

register_parser(cp, key, parser_func) ==
    IF ~Callable(parser_func)
    THEN [out |-> EnvParseError("InvalidOverride"), cp |-> cp]
    ELSE [out |-> Ok(<<>>), cp |-> Put(cp, key, parser_func)]

(***************************************************************************)
(* The getters.                                                            *)
(***************************************************************************)
\* try: return <r>  except <kinds>: raise EnvParseError(...)
Except(r, kinds, calls) ==
    IF r.kind \in kinds THEN Res(EnvParseError("ConversionFailure"), calls) ELSE Res(r, calls)

\* try: return <r>  except Exception: raise EnvParseError(...)
ExceptException(r, calls) ==
    IF r.kind # "ok" THEN Res(EnvParseError("ConversionFailure"), calls) ELSE Res(r, calls)

StrVal(s) == [t |-> "str", v |-> s]

str(ev, cp, key) ==
    LET g == _get(ev, key) IN
    IF g.kind # "ok" THEN Res(g, <<>>)
    ELSE LET a == _apply_custom_parser(cp, key, g.val)
         IN  Res(Ok(StrVal(a.val)), a.calls)

\* conint()(n): conint() with no constraint is int
ConInt(n) ==
    IF n.kind # "ok" THEN n ELSE Ok([t |-> "int", neg |-> n.val.neg, mag |-> n.val.mag])

int(ev, cp, key) ==
    LET g == _get(ev, key) IN
    IF g.kind # "ok" THEN Res(g, <<>>)
    ELSE LET a == _apply_custom_parser(cp, key, g.val)
         IN  Except(ConInt(PyInt(a.val, 10)), {"ValueError"}, a.calls)

float(ev, cp, key) ==
    LET g == _get(ev, key) IN
    IF g.kind # "ok" THEN Res(g, <<>>)
    ELSE LET a == _apply_custom_parser(cp, key, g.val)
         IN  Except(PyFloat(a.val), {"ValueError"}, a.calls)

TrueWords == {<<"t","r","u","e">>, <<"1">>, <<"y","e","s">>}
FalseWords == {<<"f","a","l","s","e">>, <<"0">>, <<"n","o">>}

BoolVal(b) == [t |-> "bool", v |-> b]

BoolOf(value) ==
    IF value \in TrueWords THEN Ok(BoolVal(TRUE))
    ELSE IF value \in FalseWords THEN Ok(BoolVal(FALSE))
    ELSE EnvParseError("ConversionFailure")

\* bool without .lower()
BoolCaseSensitive(ev, cp, key) ==
    LET g == _get(ev, key) IN
    IF g.kind # "ok" THEN Res(g, <<>>)
    ELSE LET a == _apply_custom_parser(cp, key, g.val)
         IN  Res(BoolOf(a.val), a.calls)

\* value = self._get(key).lower(), then the override, then the membership tests
bool(ev, cp, key) ==
    LET g == _get(ev, key) IN
    IF g.kind # "ok" THEN Res(g, <<>>)
    ELSE LET a == _apply_custom_parser(cp, key, Lower(g.val))
         IN  Res(BoolOf(a.val), a.calls)

SecondsPerDay == 86400
MaxTimedeltaDays == 999999999

\* d = [q, r]: the days and the seconds left of a magnitude in seconds
DaysFit(neg, d) ==
    IF neg
    THEN \/ CmpMag(d.q, NatDigits(MaxTimedeltaDays)) < 0
         \/ CmpMag(d.q, NatDigits(MaxTimedeltaDays)) = 0 /\ d.r = 0
    ELSE CmpMag(d.q, NatDigits(MaxTimedeltaDays)) <= 0

\* timedelta(seconds=n): OverflowError unless -999999999 <= n // 86400 <= 999999999
PyTimedelta(n) ==
    IF DaysFit(n.neg, DivMag(n.mag, SecondsPerDay, <<>>, 0))
    THEN Ok([t |-> "timedelta", neg |-> n.neg, seconds |-> n.mag])
    ELSE Raise("OverflowError", "days must have magnitude <= 999999999")

\* timedelta(seconds=int(value))
TimedeltaOf(n) == IF n.kind # "ok" THEN n ELSE PyTimedelta(n.val)

timedelta(ev, cp, key) ==
    LET g == _get(ev, key) IN
    IF g.kind # "ok" THEN Res(g, <<>>)
    ELSE LET a == _apply_custom_parser(cp, key, g.val)
         IN  Except(TimedeltaOf(PyInt(a.val, 10)), {"ValueError"}, a.calls)

PortMin == 1
PortMax == 65535

\* the range test as 1 <= port < 65535
PortOfExclusive(i, calls) ==
    IF i.out.kind # "ok" THEN Res(i.out, calls \o i.calls)
    ELSE IF BigLeq(ToBig(PortMin), i.out.val) /\ ~BigLeq(ToBig(PortMax), i.out.val)
    THEN Res(i.out, calls \o i.calls)
    ELSE Res(EnvParseError("ConversionFailure"), calls \o i.calls)

\* if 1 <= port <= 65535: return port; raise EnvParseError(...)
PortOf(i, calls) ==
    IF i.out.kind # "ok" THEN Res(i.out, calls \o i.calls)
    ELSE IF BigLeq(ToBig(PortMin), i.out.val) /\ BigLeq(i.out.val, ToBig(PortMax))
    THEN Res(i.out, calls \o i.calls)
    ELSE Res(EnvParseError("ConversionFailure"), calls \o i.calls)

\* the override is applied here and again inside self.int(key)
port(ev, cp, key) ==
    LET g == _get(ev, key) IN
    IF g.kind # "ok" THEN Res(g, <<>>)
    ELSE LET a == _apply_custom_parser(cp, key, g.val)
         IN  PortOf(int(ev, cp, key), a.calls)

date(ev, cp, key, date_format) ==
    LET g == _get(ev, key) IN
    IF g.kind # "ok" THEN Res(g, <<>>)
    ELSE LET a == _apply_custom_parser(cp, key, g.val)
         IN  Except(Strptime(a.val, date_format), {"ValueError"}, a.calls)

uuid(ev, cp, key) ==
    LET g == _get(ev, key) IN
    IF g.kind # "ok" THEN Res(g, <<>>)
    ELSE LET a == _apply_custom_parser(cp, key, g.val)
         IN  Except(PyUUID(a.val), {"ValueError"}, a.calls)

json(ev, cp, key) ==
    LET g == _get(ev, key) IN
    IF g.kind # "ok" THEN Res(g, <<>>)
    ELSE LET a == _apply_custom_parser(cp, key, g.val)
         IN  Except(PyJsonLoads(a.val), {"JSONDecodeError"}, a.calls)

path(ev, cp, key) ==
    LET g == _get(ev, key) IN
    IF g.kind # "ok" THEN Res(g, <<>>)
    ELSE LET a == _apply_custom_parser(cp, key, g.val)
         IN  Res(PyPath(a.val), a.calls)

\* if all([parsed.scheme, parsed.netloc]): return parsed; raise EnvParseError(...)
UrlOfParsed(parsed) ==
    IF parsed.kind # "ok" THEN parsed
    ELSE IF parsed.val.scheme # <<>> /\ parsed.val.netloc # <<>> THEN parsed
    ELSE EnvParseError("ConversionFailure")

url(ev, cp, key) ==
    LET g == _get(ev, key) IN
    IF g.kind # "ok" THEN Res(g, <<>>)
    ELSE LET a == _apply_custom_parser(cp, key, g.val)
         IN  Res(UrlOfParsed(PyUrlparse(a.val)), a.calls)

\* enum_type[value]; enum_type is [subscriptable, members]: an Enum class is
\* subscriptable by its member names, an ordinary class is not subscriptable
Subscript(enum_type, value) ==
    IF ~enum_type.subscriptable THEN Raise("TypeError", "type is not subscriptable")
    ELSE IF value \notin enum_type.members THEN Raise("KeyError", "no such member")
    ELSE Ok([t |-> "enum", name |-> value])

enum(ev, cp, key, enum_type) ==
    LET g == _get(ev, key) IN
    IF g.kind # "ok" THEN Res(g, <<>>)
    ELSE LET a == _apply_custom_parser(cp, key, g.val)
         IN  Except(Subscript(enum_type, a.val), {"KeyError"}, a.calls)

\* value.split(delimiter)
PySplit(value, delimiter) ==
    IF delimiter = <<>> THEN Raise("ValueError", "empty separator")
    ELSE Ok(SplitMax(value, delimiter, -1))

\* [item.strip() for item in items]
ListOf(items) ==
    IF items.kind # "ok" THEN items
    ELSE Ok([t |-> "list", v |-> [i \in 1..Len(items.val) |-> Strip(items.val[i])]])

list(ev, cp, key, delimiter) ==
    LET g == _get(ev, key) IN
    IF g.kind # "ok" THEN Res(g, <<>>)
    ELSE LET a == _apply_custom_parser(cp, key, g.val)
         IN  Res(ListOf(PySplit(a.val, delimiter)), a.calls)

\* dict(pairs): every pair must have two items; a later key replaces an earlier one
RECURSIVE DictOfPairs(_, _)
DictOfPairs(pairs, d) ==
    IF pairs = <<>> THEN Ok([t |-> "dict", v |-> d])
    ELSE IF Len(Head(pairs)) # 2 THEN Raise("ValueError", "dictionary update sequence element")
    ELSE DictOfPairs(Tail(pairs), Put(d, Head(pairs)[1], Head(pairs)[2]))

\* dict(item.split(":") for item in items)
PyDict(items) ==
    DictOfPairs([i \in 1..Len(items) |-> SplitMax(items[i], <<":">>, -1)], EmptyDict)

dict(ev, cp, key) ==
    LET g == _get(ev, key) IN
    IF g.kind # "ok" THEN Res(g, <<>>)
    ELSE LET a == _apply_custom_parser(cp, key, g.val)
         IN  ExceptException(PyDict(SplitMax(a.val, <<",">>, -1)), a.calls)

base64_decode(ev, cp, key) ==
    LET g == _get(ev, key) IN
    IF g.kind # "ok" THEN Res(g, <<>>)
    ELSE LET a == _apply_custom_parser(cp, key, g.val)
         IN  Except(PyB64decode(a.val), {"ValueError"}, a.calls)

\* Image.open(BytesIO(decoded)) on the result of base64_decode
ImageOf(decoded) ==
    IF decoded.out.kind # "ok" THEN decoded
    ELSE ExceptException(ImageOpen(decoded.out.val.v), decoded.calls)

base64_image(ev, cp, key) == ImageOf(base64_decode(ev, cp, key))

(***************************************************************************)
(* Inputs.                                                                 *)
(***************************************************************************)
KA == <<"A">>
KB == <<"B">>
Keys == {KA, KB}

NoArg == <<>>

\* PORT=8080 of the fixture
Raw8080 == <<"8","0","8","0">>

RawValues == {
    Raw8080,
    \* a boolean word in upper case
    <<"T","R","U","E">>,
    \* TODAY=12-10-2024 of the fixture
    <<"1","2","-","1","0","-","2","0","2","4">>,
    \* UUID=... of the fixture
    <<"5","5","0","e","8","4","0","0","-","e","2","9","b","-","4","1","d","4","-","a",
      "7","1","6","-","4","4","6","6","5","5","4","4","0","0","0","0">>,
    \* SAMPLE_JSON of the fixture
    <<"{","\"","k","e","y","\"",":"," ","\"","v","a","l","u","e","\"","}">>,
    \* a list, one item with a space to trim
    <<"1",","," ","2",",","3">>,
    \* SAMPLE_DICT of the fixture, shortened
    <<"k","1",":","v","1",",","k","2",":","v","2">>,
    \* BASE64_IMAGE of the fixture: the base64 text of hello world
    <<"a","G","V","s","b","G","8","g","d","2","9","y","b","G","Q","=">>,
    \* the base64 text of TinyGif
    <<"R","0","l","G","O","D","l","h","A","Q","A","B","A","I","A","A","A","A","A","A",
      "A","P","/","/","/","y","H","5","B","A","E","A","A","A","A","A","L","A","A",
      "A","A","A","A","B","A","A","E","A","A","A","I","B","R","A","A","7">>,
    \* a URL with scheme and host
    <<"h","t","t","p",":","/","/","h","/","p">>,
    \* a URL whose host opens a bracket and never closes it
    <<"h","t","t","p",":","/","/","[">>,
    \* a URL whose host is an IP literal in brackets
    <<"h","t","t","p",":","/","/","[",":",":","1","]">>,
    \* the name of a member of Color
    <<"R","E","D">>,
    \* 10^14: more seconds than a timedelta holds
    <<"1","0","0","0","0","0","0","0","0","0","0","0","0","0","0">>,
    \* base64 text with a character outside the alphabet
    <<"a","G","V","s","!","b","G","8","=">>,
    \* the text the tests use as an invalid value
    <<"i","n","v","a","l","i","d">>,
    <<>> }

\* the second key is given one value
ValuesFor(key) == IF key = KA THEN RawValues ELSE {Raw8080}

Const(s) == [kind |-> "const", out |-> s]
UpperFn == [kind |-> "upper", out |-> <<>>]
NotCallable == [kind |-> "notcallable", out |-> <<>>]

\* lambda x: "99999" (src/test.py) and str.upper
ParserFns == {Const(<<"9","9","9","9","9">>), UpperFn}

\* the default format, the format of test_invalid_date_format, a format that
\* names one directive twice
DateFormats == {<<"%","d","-","%","m","-","%","Y">>,
                <<"%","Y","/","%","m","/","%","d">>,
                <<"%","d","%","d">>}

\* the default delimiter and the empty one
Delimiters == {<<",">>, <<>>}

\* class Color(Enum): RED, GREEN; and a class that is no Enum
EnumTypes == {[subscriptable |-> TRUE, members |-> {<<"R","E","D">>, <<"G","R","E","E","N">>}],
              [subscriptable |-> FALSE, members |-> {}]}

Lines == {
    <<"A", "=", "1", "\n">>,
    <<"B", "=", "x", "=", "y", "\n">>,
    <<"\n">>,
    <<" ", " ", "\n">>,
    <<"#", "c", "=", "1", "\n">>,
    <<" ", "#", "A", "\n">>,
    <<"A", "\n">>,
    <<" ", "A", "=", "2", "\n">>,
    <<"A", "=", "v", " ", "\n">>,
    <<"A", "=", "\n">>,
    <<"=", "v", "\n">>,
    <<"A", " ", "=", " ", "3", "\n">>,
    <<"B", "=", "2">> }

RECURSIVE FilesOfLen(_)
FilesOfLen(n) ==
    IF n = 0 THEN {<<>>}
    ELSE {Append(f, l) : f \in FilesOfLen(n - 1), l \in Lines}

Files == UNION {FilesOfLen(n) : n \in 0..MaxLines}
\* the contents of the second file
OtherFiles == {<<>>, << <<"A", "=", "9", "\n">> >>, << <<"B", "=", "2">> >>}

OtherPath == "other.env"
Paths == {DefaultPath, OtherPath}

\* the file the fixture of src/test.py writes, cut down to one key of the model
FixtureFile == << <<"A", "=", "8", "0", "8", "0", "\n">> >>

(***************************************************************************)
(* Operations.                                                             *)
(***************************************************************************)
GetterOps == {"str", "int", "float", "bool", "date", "timedelta", "uuid", "json", "path",
              "url", "enum", "list", "dict", "base64_decode", "base64_image", "port"}

\* a getter call: the stores are read, nothing is assigned
Call(op, key, arg, r) ==
    /\ phase = "ready"
    /\ last' = [op |-> op, key |-> key, arg |-> arg, out |-> r.out, calls |-> r.calls]
    /\ UNCHANGED <<fs, phase, env_values, custom_parsers, written, registered>>

\* Env(env_file=...)
Construct(env_file) ==
    /\ phase = "new"
    /\ LET r == _load_env_file(fs, ValidatorValues([env_file |-> env_file])) IN
       /\ phase' = IF r.kind = "ok" THEN "ready" ELSE "failed"
       /\ env_values' = IF r.kind = "ok" THEN r.val ELSE EmptyDict
       /\ written' = env_values'
       /\ last' = [op |-> "construct", key |-> <<>>, arg |-> env_file,
                   out |-> IF r.kind = "ok" THEN Ok(<<>>) ELSE r, calls |-> <<>>]
    /\ UNCHANGED <<fs, custom_parsers, registered>>

\* env.env_values[key] = value
SetRaw(key, value) ==
    /\ phase = "ready"
    /\ env_values' = Put(env_values, key, value)
    /\ written' = [k \in DOMAIN written \cup {key} |-> IF k = key THEN value ELSE written[k]]
    /\ last' = [op |-> "set", key |-> key, arg |-> value, out |-> Ok(<<>>), calls |-> <<>>]
    /\ UNCHANGED <<fs, phase, custom_parsers, registered>>

RegisterParser(key, parser_func) ==
    /\ phase = "ready"
    /\ LET r == register_parser(custom_parsers, key, parser_func) IN
       /\ custom_parsers' = r.cp
       /\ last' = [op |-> "register_parser", key |-> key, arg |-> parser_func,
                   out |-> r.out, calls |-> <<>>]
    /\ registered' = IF parser_func.kind = "notcallable" THEN registered
                     ELSE [k \in DOMAIN registered \cup {key} |->
                             IF k = key THEN parser_func ELSE registered[k]]
    /\ UNCHANGED <<fs, phase, env_values, written>>

\* the getter op of Env applied to the stores ev and cp
Getter(op, ev, cp, key, arg) ==
    CASE op = "str" -> str(ev, cp, key)
      [] op = "int" -> int(ev, cp, key)
      [] op = "float" -> float(ev, cp, key)
      [] op = "bool" -> bool(ev, cp, key)
      [] op = "date" -> date(ev, cp, key, arg)
      [] op = "timedelta" -> timedelta(ev, cp, key)
      [] op = "uuid" -> uuid(ev, cp, key)
      [] op = "json" -> json(ev, cp, key)
      [] op = "path" -> path(ev, cp, key)
      [] op = "url" -> url(ev, cp, key)
      [] op = "enum" -> enum(ev, cp, key, arg)
      [] op = "list" -> list(ev, cp, key, arg)
      [] op = "dict" -> dict(ev, cp, key)
      [] op = "base64_decode" -> base64_decode(ev, cp, key)
      [] op = "base64_image" -> base64_image(ev, cp, key)
      [] op = "port" -> port(ev, cp, key)

\* env.<op>(key) or env.<op>(key, arg)
Get(op, key, arg) == Call(op, key, arg, Getter(op, env_values, custom_parsers, key, arg))

NoCall == [op |-> "none", key |-> <<>>, arg |-> NoArg, out |-> Ok(<<>>), calls |-> <<>>]

(***************************************************************************)
(* SpecLoad: construction from a file system, then str().                  *)
(***************************************************************************)
InitLoad ==
    /\ fs \in {[p \in Paths |-> IF p = DefaultPath THEN d ELSE o] :
                 d \in {File(c) : c \in Files} \cup {NoFile},
                 o \in {File(c) : c \in OtherFiles} \cup {NoFile}}
    /\ phase = "new"
    /\ env_values = EmptyDict
    /\ custom_parsers = EmptyDict
    /\ last = NoCall
    /\ written = EmptyDict
    /\ registered = EmptyDict

NextLoad ==
    \/ \E p \in Paths : Construct(p)
    \/ \E k \in Keys \cup DOMAIN env_values : Get("str", k, NoArg)

SpecLoad == InitLoad /\ [][NextLoad]_vars

(***************************************************************************)
(* Spec: an Env constructed from the fixture file; raw entries are stored, *)
(* parsers registered and every getter called, in any order.               *)
(***************************************************************************)
Init ==
    /\ fs = [p \in Paths |-> IF p = DefaultPath THEN File(FixtureFile) ELSE NoFile]
    /\ phase = "ready"
    /\ env_values = _load_env_file(fs, ValidatorValues([env_file |-> DefaultPath])).val
    /\ custom_parsers = EmptyDict
    /\ last = NoCall
    /\ written = env_values
    /\ registered = EmptyDict

Next ==
    \/ \E k \in Keys : \E v \in ValuesFor(k) : SetRaw(k, v)
    \/ \E k \in Keys : \E fn \in ParserFns \cup {NotCallable} : RegisterParser(k, fn)
    \/ \E k \in Keys : Get("str", k, NoArg)
    \/ \E k \in Keys : Get("int", k, NoArg)
    \/ \E k \in Keys : Get("float", k, NoArg)
    \/ \E k \in Keys : Get("bool", k, NoArg)
    \/ \E k \in Keys : \E f \in DateFormats : Get("date", k, f)
    \/ \E k \in Keys : Get("timedelta", k, NoArg)
    \/ \E k \in Keys : Get("uuid", k, NoArg)
    \/ \E k \in Keys : Get("json", k, NoArg)
    \/ \E k \in Keys : Get("path", k, NoArg)
    \/ \E k \in Keys : Get("url", k, NoArg)
    \/ \E k \in Keys : \E e \in EnumTypes : Get("enum", k, e)
    \/ \E k \in Keys : \E d \in Delimiters : Get("list", k, d)
    \/ \E k \in Keys : Get("dict", k, NoArg)
    \/ \E k \in Keys : Get("base64_decode", k, NoArg)
    \/ \E k \in Keys : Get("base64_image", k, NoArg)
    \/ \E k \in Keys : Get("port", k, NoArg)

Spec == Init /\ [][Next]_vars

(***************************************************************************)
(* SpecBool: bool() over the boolean words in every letter case and over   *)
(* values that are no boolean word; no parser is registered.               *)
(***************************************************************************)
\* s in every mix of upper and lower case
RECURSIVE CaseVariants(_)
CaseVariants(s) ==
    IF s = <<>> THEN {<<>>}
    ELSE {<<c>> \o rest : c \in {Head(s), UpperChar(Head(s))}, rest \in CaseVariants(Tail(s))}

\* the boolean words in every letter case, and values that are no boolean word
BoolRawValues ==
    UNION {CaseVariants(w) : w \in TrueWords \cup FalseWords}
    \cup {<<>>, <<" ", "t","r","u","e">>, <<"t","r","u","e", " ">>, <<"y","e","s","\n">>,
          <<"2">>, <<"0","1">>, <<"1","0">>, <<"t">>, <<"y">>, <<"n">>, <<"o","n">>,
          <<"O","F","F">>, <<"t","r","u">>, <<"T","R","U","E","1">>, <<"n","o","n","e">>,
          <<"N","o","t">>, <<"1",".","0">>, <<"i","n","v","a","l","i","d">>}

NextBool ==
    \/ \E v \in BoolRawValues : SetRaw(KA, v)
    \/ \E k \in Keys : Get("bool", k, NoArg)

SpecBool == Init /\ [][NextBool]_vars

(***************************************************************************)
(* SpecPort: int() and port() over numbers at and around the limits of the *)
(* port range, with parsers that return such numbers.                      *)
(***************************************************************************)
PortRawValues == {<<"0">>, <<"1">>, <<"6","5","5","3","5">>, <<"6","5","5","3","6">>,
                  <<"9","9","9","9","9">>, <<"-","1">>, <<"-","8","0","8","0">>, Raw8080,
                  <<" ","8","0"," ">>, <<"+","4","4","3">>, <<"0","0","8","0">>,
                  <<"8","0",".","0">>, <<"i","n","v","a","l","i","d">>, <<>>,
                  <<"1","0","0","0","0","0","0","0","0","0","0","0","0","0","0">>}

\* the parsers: lambda x: "99999" (src/test.py), lambda x: "65535", lambda x: "-5"
NextPort ==
    \/ \E v \in PortRawValues : SetRaw(KA, v)
    \/ \E out \in {<<"9","9","9","9","9">>, <<"6","5","5","3","5">>, <<"-","5">>} :
         RegisterParser(KA, Const(out))
    \/ \E k \in Keys : Get("int", k, NoArg)
    \/ \E k \in Keys : Get("port", k, NoArg)

SpecPort == Init /\ [][NextPort]_vars

(***************************************************************************)
(* Properties.                                                             *)
(***************************************************************************)
\* d restricted to the key k
Only(d, k) == [x \in DOMAIN d \cap {k} |-> d[x]]

IsGetterCall(call) == call.op \in GetterOps

\* C1: a getter called for a key that is not in the raw store fails with
\* EnvParseError (MissingKey), whether or not a parser is registered for the
\* key; the parser is not invoked and both stores are left as they were.
C1_MissingKeyFails ==
    [][ (IsGetterCall(last') /\ last'.key \notin DOMAIN env_values) =>
          /\ last'.out.kind = "EnvParseError"
          /\ last'.out.reason = "MissingKey"
          /\ last'.calls = <<>>
          /\ env_values' = env_values
          /\ custom_parsers' = custom_parsers ]_vars

\* a getter has failed for a missing key that has a parser registered
C1_Witness ==
    /\ IsGetterCall(last)
    /\ last.key \notin DOMAIN env_values
    /\ last.key \in DOMAIN custom_parsers
    /\ last.out.reason = "MissingKey"

\* C2: with a parser fn registered for a key that holds the raw value r, every
\* getter invokes fn on exactly r and its outcome is the outcome the getter
\* gives on a store that holds fn(r) for the key and has no parser for it.
C2_OverrideFeedsConversion ==
    (/\ IsGetterCall(last)
     /\ last.key \in DOMAIN env_values
     /\ last.key \in DOMAIN custom_parsers)
    => /\ last.calls # <<>>
       /\ \A i \in 1..Len(last.calls) : last.calls[i] = env_values[last.key]
       /\ last.out = Getter(last.op,
                            Put(env_values, last.key,
                                CallParser(custom_parsers[last.key], env_values[last.key])),
                            EmptyDict, last.key, last.arg).out

\* C3: register_parser with a value that is not callable fails with
\* EnvParseError (InvalidOverride) and leaves the registry and the raw store
\* as they were; with a callable it sets the entry of that key and changes
\* neither the raw store nor the entry of any other key.
C3_RegisterParser ==
    [][ last'.op = "register_parser" =>
          /\ env_values' = env_values
          /\ IF last'.arg.kind = "notcallable"
             THEN /\ last'.out.kind = "EnvParseError"
                  /\ last'.out.reason = "InvalidOverride"
                  /\ custom_parsers' = custom_parsers
             ELSE /\ last'.out.kind = "ok"
                  /\ DOMAIN custom_parsers' = DOMAIN custom_parsers \cup {last'.key}
                  /\ custom_parsers'[last'.key] = last'.arg
                  /\ \A k \in DOMAIN custom_parsers \ {last'.key} :
                       custom_parsers'[k] = custom_parsers[k] ]_vars

\* a value that is not callable was refused for a key whose parser stays
C3_Witness ==
    /\ last.op = "register_parser"
    /\ last.arg.kind = "notcallable"
    /\ last.out.reason = "InvalidOverride"
    /\ last.key \in DOMAIN custom_parsers
    /\ env_values # EmptyDict

\* C4: the raw store holds for each key the value most recently stored for
\* it, the registry holds for each key the one parser most recently
\* registered for it, and a getter call for a key is the getter applied to
\* the raw value and the parser current for that key at the call.
C4_CurrentState ==
    /\ env_values = written
    /\ custom_parsers = registered
    /\ IsGetterCall(last) =>
         [out |-> last.out, calls |-> last.calls]
           = Getter(last.op, Only(written, last.key), Only(registered, last.key),
                    last.key, last.arg)

\* the key that had no raw entry at construction: str has applied the parser
\* registered for it to the raw value stored for it
C4_Witness ==
    /\ last.op = "str"
    /\ last.key = KB
    /\ last.calls = <<Raw8080>>
    /\ last.out.kind = "ok"
    /\ last.out.val = StrVal(<<"9","9","9","9","9">>)

(***************************************************************************)
(* Properties of the loader, under SpecLoad.                               *)
(***************************************************************************)
\* the line without its line end
Chomp(line) ==
    IF line # <<>> /\ line[Len(line)] = "\n" THEN SubSeq(line, 1, Len(line) - 1) ELSE line

\* empty after trimming, or starting with #
Ignored(line) ==
    \/ \A i \in 1..Len(line) : line[i] \in Whitespace
    \/ line # <<>> /\ line[1] = "#"

FirstEquals(text) == CHOOSE i \in 1..Len(text) :
                       text[i] = "=" /\ \A j \in 1..(i - 1) : text[j] # "="

\* the lines that define a key
Definitions(lines) ==
    {i \in 1..Len(lines) : ~Ignored(lines[i]) /\ Contains(lines[i], "=")}

Malformed(lines) ==
    \E i \in 1..Len(lines) : ~Ignored(lines[i]) /\ ~Contains(lines[i], "=")

\* key and value of a line: the text before and after the first =
VerbatimKey(line) == SubSeq(Chomp(line), 1, FirstEquals(Chomp(line)) - 1)
VerbatimValue(line) ==
    SubSeq(Chomp(line), FirstEquals(Chomp(line)) + 1, Len(Chomp(line)))

\* the store in which the last definition of a key gives its value
VerbatimStore(lines) ==
    [k \in {VerbatimKey(lines[i]) : i \in Definitions(lines)} |->
       VerbatimValue(lines[CHOOSE i \in Definitions(lines) :
                             /\ VerbatimKey(lines[i]) = k
                             /\ \A j \in Definitions(lines) :
                                  VerbatimKey(lines[j]) = k => j <= i])]

\* key and value of a line trimmed as a whole: the key loses the white space
\* before it, the value the white space after it
TrimmedKey(line) == LStrip(VerbatimKey(line))
TrimmedValue(line) == RStrip(VerbatimValue(line))

TrimmedStore(lines) ==
    [k \in {TrimmedKey(lines[i]) : i \in Definitions(lines)} |->
       TrimmedValue(lines[CHOOSE i \in Definitions(lines) :
                            /\ TrimmedKey(lines[i]) = k
                            /\ \A j \in Definitions(lines) :
                                 TrimmedKey(lines[j]) = k => j <= i])]

\* Env(env_file='.env') has returned: the file named is the file read
LoadedDefault == phase = "ready" /\ last.op = "construct" /\ last.arg = DefaultPath

StrReturnsRaw ==
    (phase = "ready" /\ last.op = "str" /\ last.key \in DOMAIN env_values)
    => last.out = Ok(StrVal(env_values[last.key]))

\* C5: Env(env_file=p) loads the file named p: it fails with EnvParseError
\* (SourceNotFound) when p cannot be opened, whatever the file .env is, and
\* otherwise the raw store is the store of the lines of p.
C5_LoadsNamedFile ==
    last.op = "construct" =>
        IF ~fs[last.arg].exists
        THEN /\ phase = "failed"
             /\ last.out.kind = "EnvParseError"
             /\ last.out.reason = "SourceNotFound"
        ELSE ~Malformed(fs[last.arg].lines) =>
                /\ phase = "ready"
                /\ env_values = TrimmedStore(fs[last.arg].lines)

\* C6 as stated: lines that are empty after trimming or start with # are
\* ignored, every other line with an = gives the key before its first = and
\* the value after it verbatim, and str returns the stored text.
C6_VerbatimLines ==
    /\ LoadedDefault => env_values = VerbatimStore(fs[DefaultPath].lines)
    /\ StrReturnsRaw

\* C6: lines that are empty after trimming or start with # are ignored; every
\* other line is trimmed as a whole and split at its first =, so that the key
\* is the text before the first = without leading white space and the value
\* the text after it, further = included, without trailing white space; str
\* returns the stored text.
C6_TrimmedLines ==
    /\ LoadedDefault => env_values = TrimmedStore(fs[DefaultPath].lines)
    /\ StrReturnsRaw

\* str has returned the value of a line that began with white space
C6_Witness ==
    /\ phase = "ready"
    /\ last.op = "str"
    /\ last.key = KA
    /\ fs[DefaultPath].lines = << <<"#", "c", "=", "1", "\n">>, <<" ", "A", "=", "2", "\n">> >>
    /\ last.out.val = StrVal(<<"2">>)

\* C7: a file with a line that is not ignored and has no = makes Env(...)
\* fail with EnvParseError (ParseFailure), and no store is produced.
C7_MalformedLineFails ==
    (last.op = "construct" /\ last.arg = DefaultPath /\ fs[DefaultPath].exists
       /\ Malformed(fs[DefaultPath].lines))
    => /\ phase = "failed"
       /\ env_values = EmptyDict
       /\ last.out.kind = "EnvParseError"
       /\ last.out.reason = "ParseFailure"

(***************************************************************************)
(* Properties of the conversions.                                          *)
(***************************************************************************)
\* C8: a getter called for a key of the raw store returns a value or fails
\* with EnvParseError; no other exception leaves the call.
C8_ValueOrEnvParseError ==
    (IsGetterCall(last) /\ last.key \in DOMAIN env_values)
    => last.out.kind \in {"ok", "EnvParseError"}

\* pairs of an upper-case letter and its lower-case letter
LetterPairs == {<<"T","t">>, <<"R","r">>, <<"U","u">>, <<"E","e">>, <<"Y","y">>,
                <<"S","s">>, <<"F","f">>, <<"A","a">>, <<"L","l">>, <<"N","n">>,
                <<"O","o">>}

\* s is word in some letter case
IsWord(s, word) ==
    /\ Len(s) = Len(word)
    /\ \A i \in 1..Len(s) : s[i] = word[i] \/ <<s[i], word[i]>> \in LetterPairs

\* C9 (SpecBool): with no parser registered, bool returns True for true, 1
\* and yes in any letter case, False for false, 0 and no in any letter case,
\* and fails with EnvParseError (ConversionFailure) for every other value.
C9_BoolWords ==
    (last.op = "bool" /\ last.key \in DOMAIN env_values
       /\ last.key \notin DOMAIN custom_parsers)
    => IF \E w \in {<<"t","r","u","e">>, <<"1">>, <<"y","e","s">>} :
            IsWord(env_values[last.key], w)
       THEN last.out.kind = "ok" /\ last.out.val = BoolVal(TRUE)
       ELSE IF \E w \in {<<"f","a","l","s","e">>, <<"0">>, <<"n","o">>} :
                 IsWord(env_values[last.key], w)
       THEN last.out.kind = "ok" /\ last.out.val = BoolVal(FALSE)
       ELSE last.out.kind = "EnvParseError" /\ last.out.reason = "ConversionFailure"

\* bool has returned True for a word in mixed case
C9_Witness ==
    /\ last.op = "bool"
    /\ last.key = KA
    /\ env_values[KA] = <<"Y","e","S">>
    /\ last.out.kind = "ok"
    /\ last.out.val = BoolVal(TRUE)

\* the number a magnitude of few digits stands for
RECURSIVE MagValue(_)
MagValue(mag) ==
    IF mag = <<>> THEN 0
    ELSE 10 * MagValue(SubSeq(mag, 1, Len(mag) - 1)) + mag[Len(mag)]

\* 1 <= n <= 65535
InPortRange(n) ==
    ~n.neg /\ Len(n.mag) <= 5 /\ MagValue(n.mag) >= 1 /\ MagValue(n.mag) <= 65535

\* what port returns when int gives the outcome i
PortAgrees(i) ==
    IF i.kind = "ok" /\ InPortRange(i.val) THEN last.out = i
    ELSE last.out.kind = "EnvParseError"

\* C10 (SpecPort): port returns n exactly when int returns n and 1 <= n <=
\* 65535, and fails with EnvParseError otherwise; with a parser registered
\* the number tested is the one converted from the parser's output.
C10_PortRange ==
    (last.op = "port" /\ last.key \in DOMAIN env_values)
    => PortAgrees(int(env_values, custom_parsers, last.key).out)

\* port has refused the 99999 of a parser over a raw value in the range
C10_Witness ==
    /\ last.op = "port"
    /\ last.key = KA
    /\ env_values[KA] = Raw8080
    /\ KA \in DOMAIN custom_parsers
    /\ custom_parsers[KA] = Const(<<"9","9","9","9","9">>)
    /\ last.out.kind = "EnvParseError"

====
